---- MODULE Spec2Model ----
(***************************************************************************)
(* State-machine model of hific/model.py: the HificModel orchestrator.     *)
(* Tensors are represented by what the orchestration decides about them:   *)
(* shape, order of the batch rows, and whether a gradient path leads back  *)
(* into the encoder/generator parameters.                                  *)
(***************************************************************************)
EXTENDS Integers, Sequences, FiniteSets, TLC

VARIABLES
    pc,                     \* "new" | "ready" | "ValueError" | "AssertionError"
    logger_defined,         \* is the module-level name `logger` bound (run as script)
    model_mode,             \* self.model_mode
    model_type,             \* self.model_type
    args_discriminator_steps, \* self.args.discriminator_steps
    log_interval,           \* self.log_interval
    n_downsampling_layers,  \* self.Encoder.n_downsampling_layers
    use_discriminator,      \* self.use_discriminator
    discriminator_steps,    \* self.discriminator_steps
    training,               \* nn.Module.training
    writeout,               \* self.writeout
    step_counter,           \* self.step_counter
    storage_train,          \* self.storage_train : key -> list of scalars
    storage_test,           \* self.storage_test
    ncalls,                 \* number of forward calls made so far
    gen_calls,              \* number of forward calls made with generator_train = True
    last                    \* outcome of the most recent forward call

vars == <<pc, logger_defined, model_mode, model_type, args_discriminator_steps,
          log_interval, n_downsampling_layers, use_discriminator,
          discriminator_steps, training, writeout, step_counter,
          storage_train, storage_test, ncalls, gen_calls, last>>

config == <<logger_defined, model_mode, model_type, args_discriminator_steps,
            log_interval, n_downsampling_layers, use_discriminator,
            discriminator_steps>>

----------------------------------------------------------------------------
(* Bounds of the model *)

MaxCalls == 3
MaxBatch == 2
MaxSide == 4
MaxLogInterval == 3

(* Values of Encoder.n_downsampling_layers considered *)
DownsamplingLayers == {1, 2}

(* Values of args.discriminator_steps considered *)
StepArgs == {-1, 0, 1}

(* RGB images: x has format (N,C,H,W) *)
Channels == 3

(* Side lengths start at 2: a side of 1 would broadcast against any other. *)
Sides == 2..MaxSide

(* Values a generator output pixel may take on the nominal [0,1] scale     *)
(* (the generator output is not bounded).                                  *)
PixVals == {-1, 0, 1, 2}

----------------------------------------------------------------------------
(* default_config enumerations *)

ModelModes == [TRAINING |-> "training", VALIDATION |-> "validation",
               EVALUATION |-> "evaluation"]

ModelTypes == [COMPRESSION |-> "compression", COMPRESSION_GAN |-> "compression_gan"]

(* Values a caller may pass for model_mode / model_type *)
ModeArgs == {"training", "validation", "evaluation", "Evaluation", "test"}
TypeArgs == {"compression", "compression_gan", "Compression_GAN", "gan"}

(* str.upper() on the strings above *)
upper(s) ==
    CASE s = "training" -> "TRAINING"
      [] s = "validation" -> "VALIDATION"
      [] s = "evaluation" -> "EVALUATION"
      [] s = "Evaluation" -> "EVALUATION"
      [] s = "test" -> "TEST"
      [] s = "compression" -> "COMPRESSION"
      [] s = "compression_gan" -> "COMPRESSION_GAN"
      [] s = "Compression_GAN" -> "COMPRESSION_GAN"
      [] s = "gan" -> "GAN"

(* hasattr(cls, name) for the two enumeration classes *)
hasattr(cls, name) == name \in DOMAIN cls

----------------------------------------------------------------------------
(* Loss storage *)

CompressionKeys ==
    << "rate_penalty", "distortion", "perceptual", "n_rate", "q_rate",
       "n_rate_latent", "q_rate_latent", "n_rate_hyperlatent",
       "q_rate_hyperlatent", "weighted_rate", "weighted_distortion",
       "weighted_perceptual", "weighted_R_D", "weighted_compression_loss_sans_G" >>

GANKeys == << "D_gen", "D_real", "disc_loss", "gen_loss", "weighted_gen_loss" >>

ForwardKeys == << "weighted_compression_loss" >>

Range(s) == {s[i] : i \in DOMAIN s}

Keys == Range(CompressionKeys) \cup Range(GANKeys) \cup Range(ForwardKeys)

(* defaultdict(list) *)
EmptyStorage == [k \in Keys |-> <<>>]

(* store_loss without the `self.writeout is True` test *)
store_loss_unconditional(S, trn, wo, key, loss) ==
    IF trn
    THEN [S EXCEPT !.train[key] = Append(@, loss)]
    ELSE [S EXCEPT !.test[key] = Append(@, loss)]

(* store_loss on the pair S = [train, test] of storages.  `trn` is          *)
(* self.training, `wo` is self.writeout.                                   *)
store_loss(S, trn, wo, key, loss) ==
    IF wo
    THEN IF trn
         THEN [S EXCEPT !.train[key] = Append(@, loss)]
         ELSE [S EXCEPT !.test[key] = Append(@, loss)]
    ELSE S

(* The consecutive store_loss calls of one bookkeeping block *)
RECURSIVE store_all(_, _, _, _, _)
store_all(S, trn, wo, keys, loss) ==
    IF keys = <<>> THEN S
    ELSE store_all(store_loss(S, trn, wo, Head(keys), loss), trn, wo, Tail(keys), loss)

(* The bookkeeping condition `self.step_counter % self.log_interval == 1` *)
bookkeeping(sc, li) == sc % li = 1

----------------------------------------------------------------------------
(* Tensors.  A tensor of format (N,C,H,W) is [rows, dims, grad]: `rows` is  *)
(* the batch axis (one tag per sample), `dims` is (C,H,W), and `grad` says *)
(* whether backpropagation from it reaches encoder/generator parameters.   *)

tensor(rows, dims, grad) == [rows |-> rows, dims |-> dims, grad |-> grad]

(* The input batch x: N real images of C x H x W, no gradient history *)
input_batch(n, h, w) ==
    tensor([i \in 1..n |-> <<"real", i>>], <<Channels, h, w>>, FALSE)

(* Tensor.detach() *)
detach(t) == [t EXCEPT !.grad = FALSE]

(* torch.cat([a, b], dim=0) *)
cat(a, b) == tensor(a.rows \o b.rows, a.dims, a.grad \/ b.grad)

(* torch.repeat_interleave(t, 2, dim=0): every row repeated in place *)
repeat_interleave(t) ==
    [t EXCEPT !.rows = [i \in 1..(2 * Len(t.rows)) |-> t.rows[(i + 1) \div 2]]]

(* torch.chunk(t, 2, dim=0): chunks of ceil(len/2) rows *)
chunk(t) ==
    LET c == (Len(t.rows) + 1) \div 2
    IN  << [t EXCEPT !.rows = SubSeq(t.rows, 1, c)],
           [t EXCEPT !.rows = SubSeq(t.rows, c + 1, Len(t.rows))] >>

(* Element-wise binary operations need equal or broadcastable sizes *)
same_size(a, b) ==
    /\ Len(a.rows) = Len(b.rows) \/ Len(a.rows) = 1 \/ Len(b.rows) = 1
    /\ \A i \in 1..3 : a.dims[i] = b.dims[i] \/ a.dims[i] = 1 \/ b.dims[i] = 1

----------------------------------------------------------------------------
(* External collaborators, by their contracts *)

Min(a, b) == IF a < b THEN a ELSE b

(* helpers.pad_factor: pad H and W up to the next multiple of `factor` *)
pad_side(h, factor) == h + ((factor - (h % factor)) % factor)

pad_factor(x, image_dims, factor) ==
    [x EXCEPT !.dims = <<x.dims[1], pad_side(x.dims[2], factor),
                         pad_side(x.dims[3], factor)>>]

(* network.Encoder: n stride-2 stages; sizes here are multiples of the     *)
(* factor whenever the encoder is reached                                  *)
Encoder(x, factor) ==
    tensor([i \in 1..Len(x.rows) |-> <<"latent", x.rows[i][2]>>],
           <<"C_latent", x.dims[2] \div factor, x.dims[3] \div factor>>, TRUE)

(* hyperprior.Hyperprior: hyperinfo.decoded has the latent's rows *)
Hyperprior(y) ==
    [decoded |-> y, total_nbpp |-> "total_nbpp", total_qbpp |-> "total_qbpp"]

(* network.Generator: n upsampling stages back to image resolution *)
Generator(y, factor) ==
    tensor([i \in 1..Len(y.rows) |-> <<"gen", y.rows[i][2]>>],
           <<Channels, y.dims[2] * factor, y.dims[3] * factor>>, TRUE)

(* network.Discriminator: row i is scored from image row i and context row i *)
Discriminator(D_in, latents) ==
    tensor([i \in 1..Len(D_in.rows) |-> <<D_in.rows[i], latents.rows[i]>>],
           <<1, 1, 1>>, D_in.grad \/ latents.grad)

(* losses.gan_loss: a scalar computed from the discriminator output *)
gan_loss(disc_out, mode) ==
    [mode |-> mode, grad |-> disc_out.D_real.grad \/ disc_out.D_gen.grad]

----------------------------------------------------------------------------
(* compression_forward *)

(* `self.model_mode == ModelModes.VALIDATION and (self.training is False)` *)
pad_branch(mode, trn) == mode = ModelModes.VALIDATION /\ trn = FALSE

(* Cropping with the indices shifted: `[:, :, :image_dims[0], :image_dims[1]]` *)
undo_padding_shifted(reconstruction, image_dims) ==
    [reconstruction EXCEPT !.dims =
        <<@[1], Min(@[2], image_dims[1]), Min(@[3], image_dims[2])>>]

(* `reconstruction[:, :, :image_dims[1], :image_dims[2]]` (0-based indices) *)
undo_padding(reconstruction, image_dims) ==
    [reconstruction EXCEPT !.dims =
        <<@[1], Min(@[2], image_dims[2]), Min(@[3], image_dims[3])>>]

(* Returns [raised, intermediates, padded, cropped, encoder_input].        *)
(* `lg` says whether the global name `logger` used on the padding path is  *)
(* bound.                                                                  *)
compression_forward(x0, mode, trn, nds, lg) ==
    LET image_dims == x0.dims
        factor == 2 ^ nds
        padding == pad_branch(mode, trn)
        x == IF padding THEN pad_factor(x0, image_dims, factor) ELSE x0
        y == Encoder(x, factor)
        hyperinfo == Hyperprior(y)
        g == Generator(y, factor)
        reconstruction == IF pad_branch(mode, trn)
                          THEN undo_padding(g, image_dims) ELSE g
    IN  IF padding /\ ~lg
        THEN [raised |-> "NameError"]
        ELSE [raised |-> "none",
              intermediates |->
                  [input_image |-> x,
                   reconstruction |-> reconstruction,
                   latents_quantized |-> hyperinfo.decoded,
                   n_bpp |-> hyperinfo.total_nbpp,
                   q_bpp |-> hyperinfo.total_qbpp],
              padded |-> padding,
              cropped |-> pad_branch(mode, trn),
              image_dims |-> image_dims,
              encoder_input |-> x.dims]

----------------------------------------------------------------------------
(* discriminator_forward *)

(* discriminator_forward without the conditional detach of x_gen *)
discriminator_forward_attached(intermediates, generator_train) ==
    LET x_gen == intermediates.reconstruction
        x_real == intermediates.input_image
        D_in == cat(x_real, x_gen)
        latents == repeat_interleave(detach(intermediates.latents_quantized))
        D_out == Discriminator(D_in, latents)
        halves == chunk(D_out)
    IN  [D_real |-> halves[1], D_gen |-> halves[2],
         D_in |-> D_in, x_gen |-> x_gen, latents |-> latents]

discriminator_forward(intermediates, generator_train) ==
    LET x_gen0 == intermediates.reconstruction
        x_real == intermediates.input_image
        x_gen == IF generator_train = FALSE THEN detach(x_gen0) ELSE x_gen0
        D_in == cat(x_real, x_gen)
        latents == repeat_interleave(detach(intermediates.latents_quantized))
        D_out == Discriminator(D_in, latents)
        halves == chunk(D_out)
    IN  [D_real |-> halves[1], D_gen |-> halves[2],
         D_in |-> D_in, x_gen |-> x_gen, latents |-> latents]

----------------------------------------------------------------------------
(* compression_loss and GAN_loss.  A stored scalar is represented by the   *)
(* step counter of the call that produced it.                              *)

(* distortion_loss: MSELoss(reduction='none') on the two images *)
distortion_loss(x_gen, x_real) ==
    IF same_size(x_gen, x_real) THEN "distortion" ELSE "RuntimeError"

(* Returns [raised, S]: S is the storage pair after the bookkeeping block *)
compression_loss(intermediates, S, sc, li, trn, wo) ==
    LET x_real == intermediates.input_image
        x_gen == intermediates.reconstruction
    IN  IF distortion_loss(x_gen, x_real) = "RuntimeError"
        THEN [raised |-> "RuntimeError", S |-> S]
        ELSE [raised |-> "none",
              S |-> IF bookkeeping(sc, li)
                    THEN store_all(S, trn, wo, CompressionKeys, sc)
                    ELSE S]

(* Returns [disc_out, D_loss, G_loss, S] *)
GAN_loss(intermediates, generator_train, S, sc, li, trn, wo) ==
    LET disc_out == discriminator_forward(intermediates, generator_train)
    IN  [disc_out |-> disc_out,
         D_loss |-> gan_loss(disc_out, "discriminator_loss"),
         G_loss |-> gan_loss(disc_out, "generator_loss"),
         S |-> IF bookkeeping(sc, li)
               THEN store_all(S, trn, wo, GANKeys, sc)
               ELSE S]

----------------------------------------------------------------------------
(* State machine *)

NoCall ==
    [outcome |-> "none", generator_train |-> FALSE, writeout |-> FALSE,
     return_intermediates |-> FALSE, x |-> <<>>, cf |-> <<>>, disc |-> <<>>,
     losses |-> <<>>, ret |-> <<>>]

Init ==
    /\ pc = "new"
    /\ logger_defined \in BOOLEAN
    /\ model_mode = "unset"
    /\ model_type = "unset"
    /\ args_discriminator_steps = 0
    /\ log_interval = 1
    /\ n_downsampling_layers = 1
    /\ use_discriminator = FALSE
    /\ discriminator_steps = 0
    /\ training = TRUE
    /\ writeout = FALSE
    /\ step_counter = 0
    /\ storage_train = EmptyStorage
    /\ storage_test = EmptyStorage
    /\ ncalls = 0
    /\ gen_calls = 0
    /\ last = NoCall

(* `self.model_type == COMPRESSION_GAN and self.model_mode != EVALUATION` *)
uses_discriminator(mode, type) ==
    type = ModelTypes.COMPRESSION_GAN /\ mode # ModelModes.EVALUATION

(* __init__ with the assertion written `discriminator_steps != 0` *)
init_outcome_nonzero(mode, type, dsteps) ==
    IF ~hasattr(ModelTypes, upper(type)) THEN "ValueError"
    ELSE IF ~hasattr(ModelModes, upper(mode)) THEN "ValueError"
    ELSE IF uses_discriminator(mode, type) /\ ~(dsteps # 0) THEN "AssertionError"
    ELSE "ready"

(* How __init__ ends for the given arguments *)
init_outcome(mode, type, dsteps) ==
    IF ~hasattr(ModelTypes, upper(type)) THEN "ValueError"
    ELSE IF ~hasattr(ModelModes, upper(mode)) THEN "ValueError"
    ELSE IF uses_discriminator(mode, type) /\ ~(dsteps > 0) THEN "AssertionError"
    ELSE "ready"

(* HificModel.__init__ *)
HificModel_init(mode, type, dsteps, li, nds) ==
    /\ pc = "new"
    /\ model_mode' = mode
    /\ model_type' = type
    /\ args_discriminator_steps' = dsteps
    /\ log_interval' = li
    /\ n_downsampling_layers' = nds
    /\ step_counter' = 0
    /\ pc' = init_outcome(mode, type, dsteps)
    /\ use_discriminator' =
           (init_outcome(mode, type, dsteps) # "ValueError"
            /\ uses_discriminator(mode, type))
    /\ discriminator_steps' =
           IF init_outcome(mode, type, dsteps) = "ready" /\ uses_discriminator(mode, type)
           THEN dsteps ELSE 0
    /\ UNCHANGED <<logger_defined, training, writeout, storage_train,
                   storage_test, ncalls, gen_calls, last>>

(* nn.Module.train(mode) / nn.Module.eval(), which set self.training *)
train(mode) ==
    /\ pc = "ready"
    /\ training # mode
    /\ training' = mode
    /\ UNCHANGED <<pc, config, writeout, step_counter, storage_train,
                   storage_test, ncalls, gen_calls, last>>

(* torch.clamp(torch.mul(v, 255.), min=0., max=255.) *)
scale_and_clamp(v) ==
    LET m == v * 255
    IN  IF m < 0 THEN 0 ELSE IF m > 255 THEN 255 ELSE m

(* The evaluation test against the enumeration member's name, not its value *)
short_circuit_by_name(mode) == mode = "EVALUATION"

(* `self.model_mode == ModelModes.EVALUATION`: return before any loss *)
short_circuit(mode) == mode = ModelModes.EVALUATION

(* Input sizes a caller may feed: any size on the padding path, sizes the  *)
(* networks map back onto themselves elsewhere.                            *)
admissible(h, w, mode, trn, nds) ==
    \/ pad_branch(mode, trn)
    \/ h % (2 ^ nds) = 0 /\ w % (2 ^ nds) = 0

(* The counter update without the `generator_train is True` test *)
counter_update_every_call(sc, generator_train) == sc + 1

(* The step counter after the update at the head of forward *)
counter_update(sc, generator_train) ==
    IF generator_train = TRUE THEN sc + 1 ELSE sc

(* The body of forward after the counter update; returns [S, last] *)
forward_body(x, generator_train, return_intermediates, wo, pix, sc, S0) ==
    LET cf == compression_forward(x, model_mode, training,
                                  n_downsampling_layers, logger_defined)
        call == [NoCall EXCEPT !.generator_train = generator_train,
                               !.writeout = wo,
                               !.return_intermediates = return_intermediates,
                               !.x = x]
    IN  IF cf.raised # "none"
        THEN [S |-> S0, last |-> [call EXCEPT !.outcome = cf.raised]]
        ELSE IF short_circuit(model_mode)
        THEN [S |-> S0,
              last |-> [call EXCEPT !.outcome = "eval", !.cf = cf,
                            !.ret = <<scale_and_clamp(pix), cf.intermediates.q_bpp>>]]
        ELSE
        LET cl == compression_loss(cf.intermediates, S0, sc, log_interval,
                                   training, wo)
            gl == GAN_loss(cf.intermediates, generator_train, cl.S, sc,
                           log_interval, training, wo)
            S1 == IF use_discriminator = TRUE THEN gl.S ELSE cl.S
            losses == IF use_discriminator = TRUE
                      THEN [disc |-> gl.D_loss, compression |-> "compression"]
                      ELSE [compression |-> "compression"]
            S2 == IF bookkeeping(sc, log_interval)
                  THEN store_all(S1, training, wo, ForwardKeys, sc)
                  ELSE S1
        IN  IF cl.raised # "none"
            THEN [S |-> S0, last |-> [call EXCEPT !.outcome = cl.raised, !.cf = cf]]
            ELSE [S |-> S2,
                  last |-> [call EXCEPT
                      !.outcome = "losses", !.cf = cf,
                      !.disc = IF use_discriminator = TRUE THEN gl.disc_out ELSE <<>>,
                      !.losses = losses,
                      !.ret = IF return_intermediates = TRUE
                              THEN <<"losses", "intermediates">>
                              ELSE <<"losses">>]]

(* HificModel.forward *)
forward(n, h, w, generator_train, return_intermediates, wo, pix) ==
    /\ pc = "ready"
    /\ ncalls < MaxCalls
    /\ admissible(h, w, model_mode, training, n_downsampling_layers)
    /\ LET sc == counter_update(step_counter, generator_train)
           r == forward_body(input_batch(n, h, w), generator_train,
                             return_intermediates, wo, pix, sc,
                             [train |-> storage_train, test |-> storage_test])
       IN  /\ writeout' = wo
           /\ step_counter' = sc
           /\ storage_train' = r.S.train
           /\ storage_test' = r.S.test
           /\ last' = r.last
    /\ ncalls' = ncalls + 1
    /\ gen_calls' = IF generator_train THEN gen_calls + 1 ELSE gen_calls
    /\ UNCHANGED <<pc, config, training>>

(* The three actions over given argument sets *)
Construct(modes, types, steps, layers) ==
    \E mode \in modes, type \in types, dsteps \in steps,
       li \in 1..MaxLogInterval, nds \in layers :
        HificModel_init(mode, type, dsteps, li, nds)

SetTraining == \E mode \in BOOLEAN : train(mode)

Call(batches, heights, widths, flags, outs) ==
    \E n \in batches, h \in heights, w \in widths, generator_train \in flags,
       return_intermediates \in BOOLEAN, wo \in outs, pix \in PixVals :
        forward(n, h, w, generator_train, return_intermediates, wo, pix)

(* Spec: sequences of calls on one instance.  Every recognized mode and    *)
(* type; one aligned and one unaligned input size.                         *)
Next ==
    \/ Construct(Range(ModelModes), Range(ModelTypes), {1}, {1})
    \/ SetTraining
    \/ Call({1}, {2, 3}, {2}, BOOLEAN, BOOLEAN)

Spec == Init /\ [][Next]_vars

(* SpecPass: construction with any arguments followed by one forward pass  *)
(* over every batch size and input size.                                   *)
NextPass ==
    \/ Construct(ModeArgs, TypeArgs, StepArgs, DownsamplingLayers)
    \/ SetTraining
    \/ ncalls = 0 /\ Call(1..MaxBatch, Sides, Sides, BOOLEAN, BOOLEAN)

SpecPass == Init /\ [][NextPass]_vars

(* SpecRun: a run of consecutive generator-training calls in training mode *)
(* with recording opted in.                                                *)
NextRun ==
    \/ Construct({ModelModes.TRAINING}, Range(ModelTypes), {1}, {1})
    \/ SetTraining
    \/ Call({1}, {2}, {2}, {TRUE}, {TRUE})

SpecRun == Init /\ [][NextRun]_vars

----------------------------------------------------------------------------
(* Properties *)

(* A step that is one forward call *)
CallStep == ncalls' = ncalls + 1

(* compression_forward returned in the most recent call *)
Returned(l) == l.outcome \in {"losses", "eval", "RuntimeError"}

(* The discriminator branch ran in the most recent call *)
DiscriminatorRan == last.outcome = "losses" /\ use_discriminator = TRUE

(* Storage `new` keeps every entry of `old`, in place *)
Extends(new, old) ==
    \A k \in Keys :
        /\ Len(new[k]) >= Len(old[k])
        /\ SubSeq(new[k], 1, Len(old[k])) = old[k]

(* C1: with a discriminator configured, the quantized-latent context is    *)
(* detached in every call; with generator_train = false the reconstruction *)
(* fed to the discriminator is detached and the discriminator loss has no  *)
(* gradient path into the generator/encoder; with generator_train = true   *)
(* the reconstruction is not detached.                                     *)
C1_DetachBoundary ==
    DiscriminatorRan =>
        /\ last.disc.latents.grad = FALSE
        /\ last.generator_train = FALSE =>
               /\ last.disc.x_gen.grad = FALSE
               /\ last.disc.D_in.grad = FALSE
               /\ last.losses.disc.grad = FALSE
        /\ last.generator_train = TRUE => last.disc.x_gen.grad = TRUE

C1_Witness ==
    /\ DiscriminatorRan
    /\ last.generator_train = FALSE
    /\ last.cf.intermediates.reconstruction.grad = TRUE
    /\ last.cf.intermediates.latents_quantized.grad = TRUE

(* C2: the step counter equals the number of forward calls made with       *)
(* generator_train = true: such a call raises it by exactly 1, any other   *)
(* call leaves it unchanged, and it never decreases, in any model mode.    *)
C2_CounterCountsGeneratorCalls ==
    [][ /\ step_counter' >= step_counter
        /\ step_counter' = gen_calls'
        /\ CallStep =>
               step_counter' =
                   step_counter + (IF last'.generator_train THEN 1 ELSE 0)
        /\ ~CallStep => step_counter' = step_counter ]_vars

C2_Witness ==
    /\ ncalls = 3
    /\ step_counter = 2
    /\ last.generator_train = FALSE

(* C3 (as claimed): in training or validation mode with recording opted in *)
(* a forward call appends diagnostics to loss storage if and only if the   *)
(* step counter in effect during the call satisfies                        *)
(* step_counter % log_interval == 1.                                       *)
C3_RecordsIffCadence ==
    [][ (/\ CallStep
         /\ model_mode \in {ModelModes.TRAINING, ModelModes.VALIDATION}
         /\ writeout' = TRUE)
        => ((<<storage_train, storage_test>>' # <<storage_train, storage_test>>)
            <=> (step_counter' % log_interval = 1)) ]_vars

(* C4 (as claimed): the discriminator input is [real_0..real_{N-1};        *)
(* gen_0..gen_{N-1}] and the context row at each position i of the         *)
(* 2N-batch is the quantized latent of the sample whose image sits at i.   *)
C4_ContextAligned ==
    DiscriminatorRan =>
        /\ last.disc.D_in.rows =
               last.cf.intermediates.input_image.rows
                   \o last.cf.intermediates.reconstruction.rows
        /\ Len(last.disc.latents.rows) = Len(last.disc.D_in.rows)
        /\ \A i \in 1..Len(last.disc.D_in.rows) :
               last.disc.latents.rows[i][2] = last.disc.D_in.rows[i][2]

(* C5: in evaluation mode every forward call, whatever the step counter,   *)
(* generator_train and writeout, returns (reconstruction scaled and        *)
(* clamped within [0,255], discrete bpp), computes no compression or       *)
(* adversarial loss and adds no entry to either loss storage.              *)
C5_EvaluationShortCircuit ==
    [][ (CallStep /\ model_mode = ModelModes.EVALUATION) =>
            /\ last'.outcome = "eval"
            /\ last'.ret[1] \in 0..255
            /\ last'.ret[2] = "total_qbpp"
            /\ last'.losses = <<>>
            /\ last'.disc = <<>>
            /\ storage_train' = storage_train
            /\ storage_test' = storage_test ]_vars

C5_Witness ==
    /\ model_mode = ModelModes.EVALUATION
    /\ last.outcome = "eval"
    /\ last.generator_train = TRUE
    /\ last.writeout = TRUE
    /\ step_counter % log_interval = 1
    /\ last.ret[1] = 255

(* C6 (as claimed): construction fails if model_type or model_mode is not  *)
(* one of the recognized enumerated values, or if model_type is            *)
(* compression_gan with non-positive discriminator_steps, in any mode.     *)
C6_ConstructionFails ==
    pc # "new" =>
        ((\/ model_type \notin Range(ModelTypes)
          \/ model_mode \notin Range(ModelModes)
          \/ (/\ model_type = ModelTypes.COMPRESSION_GAN
              /\ args_discriminator_steps <= 0))
         => pc \in {"ValueError", "AssertionError"})

(* C6 (amended): construction fails if the upper-cased model_type or       *)
(* model_mode is not the name of a member of its enumeration, or if        *)
(* model_type is compression_gan, model_mode is not evaluation and         *)
(* discriminator_steps is non-positive.                                    *)
C6_ConstructionFailsAmended ==
    pc # "new" =>
        ((\/ upper(model_type) \notin {"COMPRESSION", "COMPRESSION_GAN"}
          \/ upper(model_mode) \notin {"TRAINING", "VALIDATION", "EVALUATION"}
          \/ (/\ model_type = ModelTypes.COMPRESSION_GAN
              /\ model_mode # ModelModes.EVALUATION
              /\ args_discriminator_steps <= 0))
         => pc \in {"ValueError", "AssertionError"})

C6_Witness ==
    /\ pc = "AssertionError"
    /\ model_type = ModelTypes.COMPRESSION_GAN
    /\ model_mode = ModelModes.VALIDATION
    /\ args_discriminator_steps = -1

(* C7: loss storage is append-only and mode-selected: a recording appends  *)
(* to exactly one storage (train when self.training, test otherwise),      *)
(* leaves the other unchanged, never removes or alters an entry, and       *)
(* nothing is appended when the caller passes writeout = false.            *)
C7_AppendOnlyModeSelected ==
    [][ /\ Extends(storage_train', storage_train)
        /\ Extends(storage_test', storage_test)
        /\ storage_train' # storage_train =>
               /\ CallStep /\ training = TRUE /\ writeout' = TRUE
               /\ storage_test' = storage_test
        /\ storage_test' # storage_test =>
               /\ CallStep /\ training = FALSE /\ writeout' = TRUE
               /\ storage_train' = storage_train ]_vars

C7_Witness ==
    /\ storage_train["weighted_compression_loss"] # <<>>
    /\ storage_test["weighted_compression_loss"] # <<>>
    /\ last.writeout = FALSE

RecordedSteps ==
    {c \in 1..step_counter :
        \E k \in Keys : \E i \in 1..Len(storage_train[k]) \cup 1..Len(storage_test[k]) :
            \/ i <= Len(storage_train[k]) /\ storage_train[k][i] = c
            \/ i <= Len(storage_test[k]) /\ storage_test[k][i] = c}

C9_OneRecordingPerWindow ==
    pc = "ready" =>
        \A a \in 1..(step_counter - log_interval + 1) :
            Cardinality({c \in a..(a + log_interval - 1) : c \in RecordedSteps}) = 1

(* C10 (as claimed): in every model mode and training sub-mode the         *)
(* input_image and the reconstruction of the Intermediates record have the *)
(* same spatial shape.                                                     *)
C10_SameSpatialShape ==
    Returned(last) =>
        /\ last.cf.intermediates.input_image.dims[2] =
               last.cf.intermediates.reconstruction.dims[2]
        /\ last.cf.intermediates.input_image.dims[3] =
               last.cf.intermediates.reconstruction.dims[3]

====
